---- MODULE Spec2Model ----
(***************************************************************************)
(* A model of src/app.py, the YouTube mashup creator: the pipeline driver  *)
(* (main), the catalog lookup (get_youtube_links), the fetch orchestrator  *)
(* (download_all_audio) with its thread pool, the item fetcher             *)
(* (download_single_audio), the composite assembler (create_mashup), and   *)
(* the packaging, delivery and cleanup steps of main.                      *)
(*                                                                         *)
(* Durations are in milliseconds, as pydub's len() reports them; sleeps    *)
(* are in milliseconds too (the code's seconds times 1000).                *)
(***************************************************************************)
EXTENDS Integers, Sequences, FiniteSets, TLC

(***************************************************************************)
(* Bounds of the model.                                                    *)
(***************************************************************************)
\* The catalog returns at most this many videos in the pipeline model.
MaxVideos == 2

\* create_mashup is given at most this many files in the assembler model.
MaxFiles == 10

\* download_all_audio is given at most this many urls in the lookup model.
MaxSlots == 11

(***************************************************************************)
(* Program constants.                                                      *)
(***************************************************************************)
\* max_attempts = 5
max_attempts == 5

\* ThreadPoolExecutor(max_workers=1)
max_workers == 1

\* len(USER_AGENTS)
NumUserAgents == 5

USER_AGENTS == 1..NumUserAgents

\* Workers for a pool sized by the machine (num_cores, line 41) instead of
\* max_workers: three threads
WorkersPerCore == 1..(max_workers + 2)

Workers == 1..max_workers

\* random.uniform(0, 1) is 0 + (1 - 0) * random.random(), and random.random()
\* lies in [0, 1): the jitter, in ms, lies in 0..999.  The model draws it
\* from the two ends of that range.
JitterMs == {0, 999}

\* The values of the "clip duration" slider the model draws (it allows
\* 20..60 seconds, default 30).
ClipSeconds == {20, 30}

(***************************************************************************)
(* Paths and file names.  A file name is the sequence of its pieces: the   *)
(* stem, the decimal digits of the slot index one by one, the dot and the  *)
(* extension, so that startswith and endswith are computed on the text.    *)
(***************************************************************************)
DigitChars == <<"0", "1", "2", "3", "4", "5", "6", "7", "8", "9">>

RECURSIVE Str(_)
\* str(index) for index >= 0, as the sequence of its decimal digits
Str(i) == IF i < 10 THEN <<DigitChars[i + 1]>>
          ELSE Str(i \div 10) \o <<DigitChars[(i % 10) + 1]>>

\* Python's None; `if x:` is x # None for the paths and lists of the program
None == [dir |-> "", name |-> <<>>]

\* the name yt-dlp writes for outtmpl song_{index}.%(ext)s once the
\* FFmpegExtractAudio postprocessor has produced the mp3
SongName(index) == <<"song_">> \o Str(index) \o <<".", "mp3">>

\* f.startswith(p)
StartsWith(f, p) == Len(f) >= Len(p) /\ SubSeq(f, 1, Len(p)) = p

\* f.endswith(s)
EndsWith(f, s) == Len(f) >= Len(s) /\ SubSeq(f, Len(f) - Len(s) + 1, Len(f)) = s

\* MatchesSlot without the test of the name's start: any mp3 of the directory
MatchesAnyMp3(f, index) == EndsWith(f, <<".", "mp3">>)

\* MatchesSlot with the dot missing from the prefix: f"song_{index}"
MatchesSlotNoDot(f, index) ==
    /\ StartsWith(f, <<"song_">> \o Str(index))
    /\ EndsWith(f, <<".", "mp3">>)

\* f.startswith(f"song_{index}.") and f.endswith(".mp3")
MatchesSlot(f, index) ==
    /\ StartsWith(f, <<"song_">> \o Str(index) \o <<".">>)
    /\ EndsWith(f, <<".", "mp3">>)

\* os.path.join(download_path, f)
DownloadPath(f) == [dir |-> "download_path", name |-> f]

\* os.path.join(tempfile.gettempdir(), "mashup.mp3")
OutputFile == [dir |-> "tempdir", name |-> <<"mashup", ".", "mp3">>]

\* os.path.join(tempfile.gettempdir(), "mashup.zip")
ZipFile == [dir |-> "tempdir", name |-> <<"mashup", ".", "zip">>]

\* os.listdir(download_path)
ListDir(d) == {p.name : p \in {q \in DOMAIN d : q.dir = "download_path"}}

RECURSIVE Perms(_)
\* every order random.shuffle can leave the list in
Perms(S) == IF S = {} THEN {<<>>}
            ELSE UNION {{<<x>> \o p : p \in Perms(S \ {x})} : x \in S}

Range(s) == {s[i] : i \in DOMAIN s}

\* the function d without the key p (os.remove)
Without(d, p) == [q \in DOMAIN d \ {p} |-> d[q]]

\* the function d with key p set to v (a file written or overwritten)
With(d, p, v) == [q \in DOMAIN d \cup {p} |-> IF q = p THEN v ELSE d[q]]

VARIABLES
    \* ---- the world outside the program
    catalog,        \* what the catalog holds for the query: a sequence of URLs
    disk,           \* the files that exist: path -> the URL whose audio the
                    \* file holds (0 for the composite and the archive)
    \* ---- main
    pc,             \* where the main thread is
    trim_duration,  \* the clip duration slider, seconds
    videos,         \* get_youtube_links' result
    audio_files,    \* download_all_audio's result
    mashup_file,    \* create_mashup's result
    email_sent,     \* send_email's result
    outcome,        \* what main reported to the user ("" until it does)
    stages,         \* the stages main has run, in order
    \* ---- download_all_audio
    video_urls,     \* the shuffled list; slot index i fetches video_urls[i]
    queue,          \* the executor's work queue: submitted slots no worker took
    future,         \* slot -> [state, result]
    completed,      \* the slots whose future finished, in completion order
    snapshot,       \* as_completed: the futures finished when it was called,
                    \* not yet yielded
    yielded,        \* as_completed: the slots it has yielded
    downloaded_files,
    \* ---- download_single_audio, one invocation per worker thread
    wpc,            \* where worker w is
    task,           \* the slot index worker w is fetching (0: none)
    attempt,        \* the loop variable
    user_agent,     \* ydl_opts['user_agent']
    sleep_time,     \* the last backoff sleep of this invocation, ms (0: none)
    retval,         \* the value about to be returned
    last_error,     \* how the last try of this invocation ended
    tries,          \* ydl.download calls made by this invocation
    slept,          \* total backoff sleep of this invocation, ms
    \* ---- create_mashup
    cm_i,           \* files processed so far
    mashup,         \* len(mashup), ms
    audio,          \* len(audio) of the file decoded last, ms (-1: none)
    expected_mashup_duration,
    branch,         \* which branch of lines 214-217 ran ("" before)
    exported,       \* duration of the exported track, ms (-1: nothing exported)
    n_long,         \* files decoded so far with len(audio) >= the clip length
    n_failed,       \* files so far that failed to decode
    \* ---- history
    fetched,        \* a download try was made in this run
    only_bot        \* every download try so far met the anti-automation signal

mainVars == <<pc, trim_duration, videos, audio_files, mashup_file, email_sent,
              outcome, stages>>
orchVars == <<video_urls, queue, future, completed, snapshot, yielded,
              downloaded_files>>
fetchVars == <<wpc, task, attempt, user_agent, sleep_time, retval, last_error,
               tries, slept>>
mashVars == <<cm_i, mashup, audio, expected_mashup_duration, branch, exported,
              n_long, n_failed>>
histVars == <<fetched, only_bot>>
vars == <<catalog, disk, mainVars, orchVars, fetchVars, mashVars, histVars>>


(***************************************************************************)
(* The state before main's try block runs (line 274): the button was       *)
(* pressed with a singer name and a valid address.                         *)
(***************************************************************************)
Start ==
    /\ disk = <<>>
    /\ pc = "get_links"
    /\ videos = <<>>
    /\ audio_files = <<>>
    /\ mashup_file = None
    /\ email_sent = "unset"
    /\ outcome = ""
    /\ stages = <<>>
    /\ video_urls = <<>>
    /\ queue = <<>>
    /\ future = <<>>
    /\ completed = <<>>
    /\ snapshot = {}
    /\ yielded = {}
    /\ downloaded_files = <<>>
    /\ wpc = [w \in Workers |-> "idle"]
    /\ task = [w \in Workers |-> 0]
    /\ attempt = [w \in Workers |-> 0]
    /\ user_agent = [w \in Workers |-> 0]
    /\ sleep_time = [w \in Workers |-> 0]
    /\ retval = [w \in Workers |-> None]
    /\ last_error = [w \in Workers |-> ""]
    /\ tries = [w \in Workers |-> 0]
    /\ slept = [w \in Workers |-> 0]
    /\ cm_i = 0
    /\ mashup = 0
    /\ audio = -1
    /\ expected_mashup_duration = 0
    /\ branch = ""
    /\ exported = -1
    /\ n_long = 0
    /\ n_failed = 0
    /\ fetched = FALSE
    /\ only_bot = TRUE

Init ==
    /\ catalog \in {[i \in 1..n |-> i] : n \in 0..MaxVideos}
    /\ trim_duration \in ClipSeconds
    /\ Start

(***************************************************************************)
(* get_youtube_links (lines 110-132) and main's check of it (276-280).     *)
(***************************************************************************)
\* videos = get_youtube_links(...): the catalog's list, or [] when the
\* lookup raises (lines 129-132)
get_youtube_links ==
    /\ pc = "get_links"
    /\ \/ videos' = catalog
       \/ videos' = <<>>
    /\ pc' = "check_videos"
    /\ stages' = Append(stages, "lookup")
    /\ UNCHANGED <<catalog, disk, trim_duration, audio_files, mashup_file,
                   email_sent, outcome, orchVars, fetchVars, mashVars, histVars>>

\* main_no_videos without the check: main goes on to download_all_audio
\* with the empty list
main_no_videos_unchecked ==
    /\ pc = "check_videos"
    /\ videos = <<>>
    /\ pc' = "as_completed"
    /\ stages' = Append(stages, "download")
    /\ UNCHANGED <<catalog, disk, trim_duration, videos, audio_files,
                   mashup_file, email_sent, outcome, orchVars, fetchVars,
                   mashVars, histVars>>

\* if not videos: st.error(...); return
main_no_videos ==
    /\ pc = "check_videos"
    /\ videos = <<>>
    /\ outcome' = "NoResults"
    /\ pc' = "done"
    /\ UNCHANGED <<catalog, disk, trim_duration, videos, audio_files,
                   mashup_file, email_sent, stages, orchVars, fetchVars,
                   mashVars, histVars>>

(***************************************************************************)
(* download_all_audio (lines 172-190), run by the main thread.             *)
(***************************************************************************)
\* the slot indexes enumerate(video_urls, start=1) gives
Slots == 1..Len(video_urls)

\* download_all_submit with the last url left out of the calls handed to the
\* executor (its future is never run)
download_all_submit_short ==
    /\ pc = "check_videos"
    /\ videos # <<>>
    /\ \E p \in Perms(DOMAIN videos) :
          video_urls' = [i \in DOMAIN videos |-> videos[p[i]]]
    /\ queue' = [i \in 1..(Len(videos) - 1) |-> i]
    /\ future' = [i \in DOMAIN videos |-> [state |-> "PENDING", result |-> None]]
    /\ downloaded_files' = <<>>
    /\ pc' = "as_completed"
    /\ stages' = Append(stages, "download")
    /\ UNCHANGED <<catalog, disk, trim_duration, videos, audio_files,
                   mashup_file, email_sent, outcome, completed, snapshot,
                   yielded, fetchVars, mashVars, histVars>>

\* lines 282-179: the url list, random.shuffle, one submit per url
download_all_submit ==
    /\ pc = "check_videos"
    /\ videos # <<>>
    /\ \E p \in Perms(DOMAIN videos) :
          video_urls' = [i \in DOMAIN videos |-> videos[p[i]]]
    /\ queue' = [i \in DOMAIN videos |-> i]
    /\ future' = [i \in DOMAIN videos |-> [state |-> "PENDING", result |-> None]]
    /\ downloaded_files' = <<>>
    /\ pc' = "as_completed"
    /\ stages' = Append(stages, "download")
    /\ UNCHANGED <<catalog, disk, trim_duration, videos, audio_files,
                   mashup_file, email_sent, outcome, completed, snapshot,
                   yielded, fetchVars, mashVars, histVars>>

\* as_completed(futures) is called: the futures already finished are set
\* aside, to be yielded first, in no particular order
as_completed_enter ==
    /\ pc = "as_completed"
    /\ snapshot' = {i \in Slots : future[i].state = "FINISHED"}
    /\ pc' = "collect"
    /\ UNCHANGED <<catalog, disk, trim_duration, videos, audio_files,
                   mashup_file, email_sent, outcome, stages, video_urls, queue,
                   future, completed, yielded, downloaded_files, fetchVars,
                   mashVars, histVars>>

\* the futures as_completed can yield next: any of those finished at the
\* call, then the others in the order they finish
NextYield ==
    IF snapshot # {} THEN snapshot
    ELSE LET later == SelectSeq(completed, LAMBDA i : i \notin yielded)
         IN  IF later = <<>> THEN {} ELSE {Head(later)}

\* what lines 183-185 leave in downloaded_files for the result mp3_file
Collected(files, mp3_file) ==
    IF mp3_file # None THEN Append(files, mp3_file) ELSE files

\* one turn of the loop of line 181, up to the pacing sleep.  future.result()
\* never raises here: download_single_audio catches every Exception itself,
\* so the handler of lines 187-188 has nothing to catch
collect ==
    /\ pc = "collect"
    /\ \E f \in NextYield :
          /\ yielded' = yielded \cup {f}
          /\ snapshot' = snapshot \ {f}
          /\ downloaded_files' = Collected(downloaded_files, future[f].result)
    /\ pc' = "pace"
    /\ UNCHANGED <<catalog, disk, trim_duration, videos, audio_files,
                   mashup_file, email_sent, outcome, stages, video_urls, queue,
                   future, completed, fetchVars, mashVars, histVars>>

\* time.sleep(random.uniform(5, 10)), line 186
pace ==
    /\ pc = "pace"
    /\ pc' = "collect"
    /\ UNCHANGED <<catalog, disk, trim_duration, videos, audio_files,
                   mashup_file, email_sent, outcome, stages, orchVars,
                   fetchVars, mashVars, histVars>>

\* download_all_return with the return inside the loop of line 181: the list
\* goes back to main after the first result (the with block still waits for
\* the queued calls)
download_all_return_first ==
    /\ pc = "collect"
    /\ yielded # {}
    /\ queue = <<>>
    /\ \A w \in Workers : wpc[w] = "idle"
    /\ audio_files' = downloaded_files
    /\ pc' = "check_audio"
    /\ UNCHANGED <<catalog, disk, trim_duration, videos, mashup_file,
                   email_sent, outcome, stages, orchVars, fetchVars, mashVars,
                   histVars>>

\* every future was yielded: the with block ends (the executor shuts down
\* once its workers are idle) and line 190 returns the list to main
download_all_return ==
    /\ pc = "collect"
    /\ yielded = Slots
    /\ \A w \in Workers : wpc[w] = "idle"
    /\ audio_files' = downloaded_files
    /\ pc' = "check_audio"
    /\ UNCHANGED <<catalog, disk, trim_duration, videos, mashup_file,
                   email_sent, outcome, stages, orchVars, fetchVars, mashVars,
                   histVars>>


(***************************************************************************)
(* download_single_audio (lines 134-170), run by a worker thread of the    *)
(* pool for the slot it took from the queue.                               *)
(***************************************************************************)
\* InRange with the bound one short: range(max_attempts - 1)
InRangeShort(a) == a < max_attempts - 1

\* InRange with the bound off by one: a sixth pass
InRangeInclusive(a) == a <= max_attempts

\* for attempt in range(max_attempts): whether the loop runs for a
InRange(a) == a < max_attempts

\* Backoff with the exponent off by one: 2 ** (attempt + 1)
BackoffDoubled(a) == (2 ^ (a + 1)) * 1000

\* Backoff without the exponential: one second for every attempt
BackoffFlat(a) == 1000

\* 2 ** attempt, in ms
Backoff(a) == (2 ^ a) * 1000

\* line 153: the names in download_path that belong to slot index
Lookup(d, index) == {f \in ListDir(d) : MatchesSlot(f, index)}

\* lines 154-158: the path of a file found, None when there is none
\* (os.listdir gives no order, so downloaded_files[0] is any of them)
Found(d, index) ==
    IF Lookup(d, index) # {}
    THEN {DownloadPath(f) : f \in Lookup(d, index)}
    ELSE {None}

\* a worker thread takes the next call from the executor's queue and starts
\* it: lines 135-148
worker_take(w) ==
    /\ wpc[w] = "idle"
    /\ queue # <<>>
    /\ task' = [task EXCEPT ![w] = Head(queue)]
    /\ queue' = Tail(queue)
    /\ future' = [future EXCEPT ![Head(queue)].state = "RUNNING"]
    /\ \E ua \in USER_AGENTS : user_agent' = [user_agent EXCEPT ![w] = ua]
    /\ attempt' = [attempt EXCEPT ![w] = 0]
    /\ wpc' = [wpc EXCEPT ![w] = "try"]
    /\ UNCHANGED <<catalog, disk, mainVars, video_urls, completed, snapshot,
                   yielded, downloaded_files, sleep_time, retval, last_error,
                   tries, slept, mashVars, histVars>>

\* lines 151-158: ydl.download returned; the mp3 was written (or, with
\* written FALSE, was not) and the file is looked up by its name
download_returns(w, written) ==
    LET d == IF written
             THEN With(disk, DownloadPath(SongName(task[w])), video_urls[task[w]])
             ELSE disk
    IN  /\ disk' = d
        /\ \E r \in Found(d, task[w]) : retval' = [retval EXCEPT ![w] = r]
        /\ last_error' = [last_error EXCEPT ![w] = ""]
        /\ wpc' = [wpc EXCEPT ![w] = "return"]
        /\ only_bot' = FALSE
        /\ UNCHANGED <<attempt, user_agent, sleep_time, slept>>

\* lines 159-160: ydl.download raised the anti-automation error
on_bot_error(w) ==
    /\ last_error' = [last_error EXCEPT ![w] = "bot"]
    /\ wpc' = [wpc EXCEPT ![w] = "backoff"]
    /\ UNCHANGED <<disk, retval, attempt, user_agent, sleep_time, slept, only_bot>>

\* on_other_error treating the error as it treats the anti-automation one:
\* backoff, rotation and the next attempt
on_other_error_retry(w) ==
    /\ last_error' = [last_error EXCEPT ![w] = "other"]
    /\ wpc' = [wpc EXCEPT ![w] = "backoff"]
    /\ only_bot' = FALSE
    /\ UNCHANGED <<disk, retval, attempt, user_agent, sleep_time, slept>>

\* lines 165-167: ydl.download raised another error
on_other_error(w) ==
    /\ last_error' = [last_error EXCEPT ![w] = "other"]
    /\ retval' = [retval EXCEPT ![w] = None]
    /\ wpc' = [wpc EXCEPT ![w] = "return"]
    /\ only_bot' = FALSE
    /\ UNCHANGED <<disk, attempt, user_agent, sleep_time, slept>>

\* one pass of the loop body up to the outcome of ydl.download
try_download(w) ==
    /\ wpc[w] = "try"
    /\ tries' = [tries EXCEPT ![w] = @ + 1]
    /\ fetched' = TRUE
    /\ \/ download_returns(w, TRUE)
       \/ download_returns(w, FALSE)
       \/ on_bot_error(w)
       \/ on_other_error(w)
    /\ UNCHANGED <<catalog, mainVars, orchVars, task, mashVars>>

\* lines 161-163: sleep_time = (2 ** attempt) + random.uniform(0, 1), slept
backoff(w) ==
    /\ wpc[w] = "backoff"
    /\ \E j \in JitterMs :
          /\ sleep_time' = [sleep_time EXCEPT ![w] = Backoff(attempt[w]) + j]
          /\ slept' = [slept EXCEPT ![w] = @ + Backoff(attempt[w]) + j]
    /\ wpc' = [wpc EXCEPT ![w] = "rotate"]
    /\ UNCHANGED <<catalog, disk, mainVars, orchVars, task, attempt, user_agent,
                   retval, last_error, tries, mashVars, histVars>>

\* line 164, then the for statement: the next attempt, or the loop's end
rotate(w) ==
    /\ wpc[w] = "rotate"
    /\ \E ua \in USER_AGENTS : user_agent' = [user_agent EXCEPT ![w] = ua]
    /\ IF InRange(attempt[w] + 1)
       THEN /\ attempt' = [attempt EXCEPT ![w] = @ + 1]
            /\ wpc' = [wpc EXCEPT ![w] = "try"]
       ELSE /\ attempt' = attempt
            /\ wpc' = [wpc EXCEPT ![w] = "exhausted"]
    /\ UNCHANGED <<catalog, disk, mainVars, orchVars, task, sleep_time, retval,
                   last_error, tries, slept, mashVars, histVars>>

\* lines 169-170: the loop ended without a return
exhausted(w) ==
    /\ wpc[w] = "exhausted"
    /\ retval' = [retval EXCEPT ![w] = None]
    /\ wpc' = [wpc EXCEPT ![w] = "return"]
    /\ UNCHANGED <<catalog, disk, mainVars, orchVars, task, attempt, user_agent,
                   sleep_time, last_error, tries, slept, mashVars, histVars>>

\* the call returns: the executor sets the future's result, the call's
\* local variables are gone and the worker thread is free again
fetch_return(w) ==
    /\ wpc[w] = "return"
    /\ future' = [future EXCEPT ![task[w]] =
                     [state |-> "FINISHED", result |-> retval[w]]]
    /\ completed' = Append(completed, task[w])
    /\ wpc' = [wpc EXCEPT ![w] = "idle"]
    /\ task' = [task EXCEPT ![w] = 0]
    /\ attempt' = [attempt EXCEPT ![w] = 0]
    /\ user_agent' = [user_agent EXCEPT ![w] = 0]
    /\ sleep_time' = [sleep_time EXCEPT ![w] = 0]
    /\ retval' = [retval EXCEPT ![w] = None]
    /\ last_error' = [last_error EXCEPT ![w] = ""]
    /\ tries' = [tries EXCEPT ![w] = 0]
    /\ slept' = [slept EXCEPT ![w] = 0]
    /\ UNCHANGED <<catalog, disk, mainVars, video_urls, queue, snapshot,
                   yielded, downloaded_files, mashVars, histVars>>


(***************************************************************************)
(* create_mashup (lines 192-220), called by main at line 291.              *)
(***************************************************************************)
Min(a, b) == IF a < b THEN a ELSE b

\* total_trim_duration_per_file = trim_duration * 1000
total_trim_duration_per_file == trim_duration * 1000

\* len(seg[a:b]) for a segment of len n and 0 <= a <= b: pydub clamps both
\* ends to the segment
SliceLen(n, a, b) == Min(b, n) - Min(a, n)

\* the durations a decoded file may have, drawn around the clip length
AudioLens == {0, total_trim_duration_per_file - 1, total_trim_duration_per_file,
              total_trim_duration_per_file + 15000}

\* random.randint(0, n): both ends and the middle
StartPoints(n) == {0, n \div 2, n}

\* PartLen without the slice of line 204: the whole decoded file
PartLenWhole(n, start_point) == n

\* PartLen with the window's end not moved by its start:
\* audio[start_point:total_trim_duration_per_file]
PartLenFixedEnd(n, start_point) ==
    IF n < total_trim_duration_per_file
    THEN n
    ELSE IF start_point < total_trim_duration_per_file
         THEN SliceLen(n, start_point, total_trim_duration_per_file)
         ELSE 0

\* PartLen with a short file padded to the clip length
PartLenPadded(n, start_point) ==
    IF n < total_trim_duration_per_file
    THEN total_trim_duration_per_file
    ELSE SliceLen(n, start_point, start_point + total_trim_duration_per_file)

\* lines 199-204: len(part) for a decoded file of len n; start_point is the
\* random start of the window
PartLen(n, start_point) ==
    IF n < total_trim_duration_per_file
    THEN n
    ELSE SliceLen(n, start_point, start_point + total_trim_duration_per_file)

\* Expected from the number of videos the catalog returned
ExpectedFromVideos(files) == total_trim_duration_per_file * Len(videos)

\* line 213
Expected(files) == total_trim_duration_per_file * Len(files)

\* main, lines 286-288
main_no_audio ==
    /\ pc = "check_audio"
    /\ audio_files = <<>>
    /\ outcome' = "NoAudioDownloaded"
    /\ pc' = "done"
    /\ UNCHANGED <<catalog, disk, trim_duration, videos, audio_files,
                   mashup_file, email_sent, stages, orchVars, fetchVars,
                   mashVars, histVars>>

\* main, lines 290-291, and create_mashup's lines 193-194
create_mashup_enter ==
    /\ pc = "check_audio"
    /\ audio_files # <<>>
    /\ mashup' = 0
    /\ cm_i' = 0
    /\ pc' = "cm_loop"
    /\ stages' = Append(stages, "assemble")
    /\ UNCHANGED <<catalog, disk, trim_duration, videos, audio_files,
                   mashup_file, email_sent, outcome, orchVars, fetchVars,
                   audio, expected_mashup_duration, branch, exported, n_long,
                   n_failed, histVars>>

\* lines 206-207: AudioSegment.from_file raised; the file is skipped
decode_fails ==
    /\ n_failed' = n_failed + 1
    /\ UNCHANGED <<mashup, audio, n_long>>

\* lines 198-205: the file decoded to n ms; its part is appended
decode_ok(n) ==
    /\ audio' = n
    /\ \E start_point \in StartPoints(IF n < total_trim_duration_per_file THEN 0
                                      ELSE n - total_trim_duration_per_file) :
          mashup' = mashup + PartLen(n, start_point)
    /\ n_long' = IF n >= total_trim_duration_per_file THEN n_long + 1 ELSE n_long
    /\ UNCHANGED n_failed

\* one turn of the loop of line 196; a file that does not exist cannot be
\* decoded
create_mashup_file ==
    /\ pc = "cm_loop"
    /\ cm_i < Len(audio_files)
    /\ cm_i' = cm_i + 1
    /\ \/ decode_fails
       \/ /\ audio_files[cm_i + 1] \in DOMAIN disk
          /\ \E n \in AudioLens : decode_ok(n)
    /\ UNCHANGED <<catalog, disk, mainVars, orchVars, fetchVars,
                   expected_mashup_duration, branch, exported, histVars>>

\* create_mashup_empty without the test of line 209: the empty track goes on
\* to lines 213-219
create_mashup_empty_unchecked ==
    /\ pc = "cm_loop"
    /\ cm_i = Len(audio_files)
    /\ mashup = 0
    /\ expected_mashup_duration' = Expected(audio_files)
    /\ branch' = "warning"
    /\ pc' = "cm_export"
    /\ UNCHANGED <<catalog, disk, trim_duration, videos, audio_files,
                   mashup_file, email_sent, outcome, stages, orchVars,
                   fetchVars, cm_i, mashup, audio, exported, n_long, n_failed,
                   histVars>>

\* lines 209-211
create_mashup_empty ==
    /\ pc = "cm_loop"
    /\ cm_i = Len(audio_files)
    /\ mashup = 0
    /\ mashup_file' = None
    /\ pc' = "check_mashup"
    /\ UNCHANGED <<catalog, disk, trim_duration, videos, audio_files,
                   email_sent, outcome, stages, orchVars, fetchVars, mashVars,
                   histVars>>

\* lines 213-217
create_mashup_finalize ==
    /\ pc = "cm_loop"
    /\ cm_i = Len(audio_files)
    /\ mashup # 0
    /\ expected_mashup_duration' = Expected(audio_files)
    /\ IF mashup < Expected(audio_files)
       THEN /\ branch' = "warning"
            /\ mashup' = mashup
       ELSE /\ branch' = "truncate"
            /\ mashup' = SliceLen(mashup, 0, Expected(audio_files))
    /\ pc' = "cm_export"
    /\ UNCHANGED <<catalog, disk, trim_duration, videos, audio_files,
                   mashup_file, email_sent, outcome, stages, orchVars,
                   fetchVars, cm_i, audio, exported, n_long, n_failed, histVars>>

\* lines 219-220: mashup.export writes the file, or raises (the exception
\* leaves create_mashup and reaches main's handler)
create_mashup_export ==
    /\ pc = "cm_export"
    /\ \/ /\ disk' = With(disk, OutputFile, 0)
          /\ exported' = mashup
          /\ mashup_file' = OutputFile
          /\ pc' = "check_mashup"
       \/ /\ pc' = "except"
          /\ UNCHANGED <<disk, exported, mashup_file>>
    /\ UNCHANGED <<catalog, trim_duration, videos, audio_files, email_sent,
                   outcome, stages, orchVars, fetchVars, cm_i, mashup, audio,
                   expected_mashup_duration, branch, n_long, n_failed, histVars>>

(***************************************************************************)
(* main after create_mashup: lines 293-315.                                *)
(***************************************************************************)
\* lines 293-295
main_no_mashup ==
    /\ pc = "check_mashup"
    /\ mashup_file = None
    /\ outcome' = "AssemblyFailed"
    /\ pc' = "done"
    /\ UNCHANGED <<catalog, disk, trim_duration, videos, audio_files,
                   mashup_file, email_sent, stages, orchVars, fetchVars,
                   mashVars, histVars>>

\* lines 297-298 and 222-225: the archive is written, or zipfile raises
create_zip_file ==
    /\ pc = "check_mashup"
    /\ mashup_file # None
    /\ stages' = Append(stages, "package")
    /\ \/ /\ mashup_file \in DOMAIN disk
          /\ disk' = With(disk, ZipFile, 0)
          /\ pc' = "send_email"
       \/ /\ disk' = disk
          /\ pc' = "except"
    /\ UNCHANGED <<catalog, trim_duration, videos, audio_files, mashup_file,
                   email_sent, outcome, orchVars, fetchVars, mashVars, histVars>>

\* lines 300-302 and 227-255: send_email returns True, or catches what was
\* raised and returns False
send_email ==
    /\ pc = "send_email"
    /\ stages' = Append(stages, "deliver")
    /\ \/ email_sent' = "True"
       \/ email_sent' = "False"
    /\ pc' = "cleanup"
    /\ UNCHANGED <<catalog, disk, trim_duration, videos, audio_files,
                   mashup_file, outcome, orchVars, fetchVars, mashVars, histVars>>

RECURSIVE RemoveAll(_, _)
\* os.remove of each path of the sequence in turn: the files left and
\* whether every remove succeeded (os.remove raises for a missing file, and
\* the removes after it do not run)
RemoveAll(d, paths) ==
    IF paths = <<>> THEN [disk |-> d, ok |-> TRUE]
    ELSE IF Head(paths) \notin DOMAIN d THEN [disk |-> d, ok |-> FALSE]
    ELSE RemoveAll(Without(d, Head(paths)), Tail(paths))

\* Removed with the removal done only after a delivery that succeeded
RemovedIfSent ==
    IF email_sent = "True" THEN <<mashup_file, ZipFile>> \o audio_files ELSE <<>>

\* lines 304-307
Removed == <<mashup_file, ZipFile>> \o audio_files

\* lines 304-307
cleanup ==
    /\ pc = "cleanup"
    /\ stages' = Append(stages, "cleanup")
    /\ disk' = RemoveAll(disk, Removed).disk
    /\ pc' = IF RemoveAll(disk, Removed).ok THEN "report" ELSE "except"
    /\ UNCHANGED <<catalog, trim_duration, videos, audio_files, mashup_file,
                   email_sent, outcome, orchVars, fetchVars, mashVars, histVars>>

\* lines 309-312
report ==
    /\ pc = "report"
    /\ outcome' = IF email_sent = "True" THEN "Success" ELSE "DeliveryFailure"
    /\ pc' = "done"
    /\ UNCHANGED <<catalog, disk, trim_duration, videos, audio_files,
                   mashup_file, email_sent, stages, orchVars, fetchVars,
                   mashVars, histVars>>

\* lines 313-315
main_except ==
    /\ pc = "except"
    /\ outcome' = "Error"
    /\ pc' = "done"
    /\ UNCHANGED <<catalog, disk, trim_duration, videos, audio_files,
                   mashup_file, email_sent, stages, orchVars, fetchVars,
                   mashVars, histVars>>

(***************************************************************************)
(* The pipeline: main's thread and the pool's worker threads.              *)
(***************************************************************************)
Next ==
    \/ get_youtube_links
    \/ main_no_videos
    \/ download_all_submit
    \/ as_completed_enter
    \/ collect
    \/ pace
    \/ download_all_return
    \/ \E w \in Workers : worker_take(w)
    \/ \E w \in Workers : try_download(w)
    \/ \E w \in Workers : backoff(w)
    \/ \E w \in Workers : rotate(w)
    \/ \E w \in Workers : exhausted(w)
    \/ \E w \in Workers : fetch_return(w)
    \/ main_no_audio
    \/ create_mashup_enter
    \/ create_mashup_file
    \/ create_mashup_empty
    \/ create_mashup_finalize
    \/ create_mashup_export
    \/ main_no_mashup
    \/ create_zip_file
    \/ send_email
    \/ cleanup
    \/ report
    \/ main_except

Spec == Init /\ [][Next]_vars


(***************************************************************************)
(* The pipeline under fair scheduling: the operating system keeps running  *)
(* the main thread and each worker thread of the pool whenever it has a    *)
(* step to take (a call of ydl.download, a sleep and the other calls all   *)
(* come back).                                                             *)
(***************************************************************************)
MainStep ==
    \/ get_youtube_links
    \/ main_no_videos
    \/ download_all_submit
    \/ as_completed_enter
    \/ collect
    \/ pace
    \/ download_all_return
    \/ main_no_audio
    \/ create_mashup_enter
    \/ create_mashup_file
    \/ create_mashup_empty
    \/ create_mashup_finalize
    \/ create_mashup_export
    \/ main_no_mashup
    \/ create_zip_file
    \/ send_email
    \/ cleanup
    \/ report
    \/ main_except

WorkerStep(w) ==
    \/ worker_take(w)
    \/ try_download(w)
    \/ backoff(w)
    \/ rotate(w)
    \/ exhausted(w)
    \/ fetch_return(w)

SpecFair ==
    /\ Init
    /\ [][Next]_vars
    /\ WF_vars(MainStep)
    /\ \A w \in Workers : WF_vars(WorkerStep(w))


(***************************************************************************)
(* The assembler on its own: main from line 286 on, in the state           *)
(* download_all_audio leaves when the catalog returned n videos and the    *)
(* fetches of slots 1..k succeeded (the others returned None).             *)
(***************************************************************************)
Downloaded(n, k) ==
    /\ catalog = [i \in 1..n |-> i]
    /\ videos = catalog
    /\ video_urls = catalog
    /\ downloaded_files = [i \in 1..k |-> DownloadPath(SongName(i))]
    /\ audio_files = downloaded_files
    /\ disk = [p \in Range(downloaded_files) |->
                  CHOOSE i \in 1..k : p = DownloadPath(SongName(i))]
    /\ future = [i \in 1..n |->
                    [state |-> "FINISHED",
                     result |-> IF i <= k THEN DownloadPath(SongName(i)) ELSE None]]
    /\ completed = [i \in 1..n |-> i]
    /\ yielded = 1..n
    /\ snapshot = {}
    /\ queue = <<>>
    /\ pc = "check_audio"
    /\ stages = <<"lookup", "download">>
    /\ fetched = TRUE
    /\ only_bot \in (IF k = 0 THEN BOOLEAN ELSE {FALSE})

InitMashup ==
    /\ trim_duration \in ClipSeconds
    /\ \E n \in 1..MaxFiles : \E k \in 0..n : Downloaded(n, k)
    /\ mashup_file = None
    /\ email_sent = "unset"
    /\ outcome = ""
    /\ wpc = [w \in Workers |-> "idle"]
    /\ task = [w \in Workers |-> 0]
    /\ attempt = [w \in Workers |-> 0]
    /\ user_agent = [w \in Workers |-> 0]
    /\ sleep_time = [w \in Workers |-> 0]
    /\ retval = [w \in Workers |-> None]
    /\ last_error = [w \in Workers |-> ""]
    /\ tries = [w \in Workers |-> 0]
    /\ slept = [w \in Workers |-> 0]
    /\ cm_i = 0
    /\ mashup = 0
    /\ audio = -1
    /\ expected_mashup_duration = 0
    /\ branch = ""
    /\ exported = -1
    /\ n_long = 0
    /\ n_failed = 0

NextMashup ==
    \/ main_no_audio
    \/ create_mashup_enter
    \/ create_mashup_file
    \/ create_mashup_empty
    \/ create_mashup_finalize
    \/ create_mashup_export
    \/ main_no_mashup
    \/ create_zip_file
    \/ send_email
    \/ cleanup
    \/ report
    \/ main_except

SpecMashup == InitMashup /\ [][NextMashup]_vars


(***************************************************************************)
(* download_all_audio on its own (lines 172-190, called at line 284), for  *)
(* a catalog of one video more than MaxVideos.                             *)
(***************************************************************************)
InitPool ==
    /\ catalog \in {[i \in 1..n |-> i] : n \in 1..(MaxVideos + 1)}
    /\ trim_duration \in ClipSeconds
    /\ videos = catalog
    /\ pc = "check_videos"
    /\ stages = <<"lookup">>
    /\ disk = <<>>
    /\ audio_files = <<>>
    /\ mashup_file = None
    /\ email_sent = "unset"
    /\ outcome = ""
    /\ video_urls = <<>>
    /\ queue = <<>>
    /\ future = <<>>
    /\ completed = <<>>
    /\ snapshot = {}
    /\ yielded = {}
    /\ downloaded_files = <<>>
    /\ wpc = [w \in Workers |-> "idle"]
    /\ task = [w \in Workers |-> 0]
    /\ attempt = [w \in Workers |-> 0]
    /\ user_agent = [w \in Workers |-> 0]
    /\ sleep_time = [w \in Workers |-> 0]
    /\ retval = [w \in Workers |-> None]
    /\ last_error = [w \in Workers |-> ""]
    /\ tries = [w \in Workers |-> 0]
    /\ slept = [w \in Workers |-> 0]
    /\ cm_i = 0
    /\ mashup = 0
    /\ audio = -1
    /\ expected_mashup_duration = 0
    /\ branch = ""
    /\ exported = -1
    /\ n_long = 0
    /\ n_failed = 0
    /\ fetched = FALSE
    /\ only_bot = TRUE

NextPool ==
    \/ download_all_submit
    \/ as_completed_enter
    \/ collect
    \/ pace
    \/ download_all_return
    \/ \E w \in Workers : worker_take(w)
    \/ \E w \in Workers : try_download(w)
    \/ \E w \in Workers : backoff(w)
    \/ \E w \in Workers : rotate(w)
    \/ \E w \in Workers : exhausted(w)
    \/ \E w \in Workers : fetch_return(w)

SpecPool == InitPool /\ [][NextPool]_vars


(***************************************************************************)
(* The last fetch of a run of download_all_audio for n urls: the one       *)
(* worker has returned from the slots before n, of which slot k left its   *)
(* file (k = 0: none did), and slot n waits in the queue; the main thread  *)
(* has not entered as_completed yet.                                       *)
(***************************************************************************)
LastFetch(n, k) ==
    /\ catalog = [i \in 1..n |-> i]
    /\ videos = catalog
    /\ video_urls = catalog
    /\ queue = <<n>>
    /\ completed = [i \in 1..(n - 1) |-> i]
    /\ future = [i \in 1..n |->
                    IF i = n THEN [state |-> "PENDING", result |-> None]
                    ELSE [state |-> "FINISHED",
                          result |-> IF i = k THEN DownloadPath(SongName(k))
                                     ELSE None]]
    /\ disk = [p \in {DownloadPath(SongName(i)) : i \in {k} \ {0}} |-> k]
    /\ pc = "as_completed"
    /\ stages = <<"lookup", "download">>
    /\ fetched = TRUE
    /\ only_bot \in (IF k = 0 THEN BOOLEAN ELSE {FALSE})

InitLookup ==
    /\ trim_duration \in ClipSeconds
    /\ \E n \in 2..MaxSlots : \E k \in 0..(n - 1) : LastFetch(n, k)
    /\ snapshot = {}
    /\ yielded = {}
    /\ downloaded_files = <<>>
    /\ audio_files = <<>>
    /\ mashup_file = None
    /\ email_sent = "unset"
    /\ outcome = ""
    /\ wpc = [w \in Workers |-> "idle"]
    /\ task = [w \in Workers |-> 0]
    /\ attempt = [w \in Workers |-> 0]
    /\ user_agent = [w \in Workers |-> 0]
    /\ sleep_time = [w \in Workers |-> 0]
    /\ retval = [w \in Workers |-> None]
    /\ last_error = [w \in Workers |-> ""]
    /\ tries = [w \in Workers |-> 0]
    /\ slept = [w \in Workers |-> 0]
    /\ cm_i = 0
    /\ mashup = 0
    /\ audio = -1
    /\ expected_mashup_duration = 0
    /\ branch = ""
    /\ exported = -1
    /\ n_long = 0
    /\ n_failed = 0

NextLookup ==
    \/ \E w \in Workers : worker_take(w)
    \/ \E w \in Workers : try_download(w)
    \/ \E w \in Workers : backoff(w)
    \/ \E w \in Workers : rotate(w)
    \/ \E w \in Workers : exhausted(w)
    \/ \E w \in Workers : fetch_return(w)

SpecLookup == InitLookup /\ [][NextLookup]_vars


(***************************************************************************)
(* Properties.                                                             *)
(***************************************************************************)

\* C1: an invocation of download_single_audio makes at most 5 calls of
\* ydl.download, whatever the tries end with.
C1_RetryCap == \A w \in Workers : tries[w] <= 5

\* an invocation is about to return after its fifth try, each met by the
\* anti-automation error
C1_Witness ==
    \E w \in Workers :
        wpc[w] = "return" /\ tries[w] = 5 /\ last_error[w] = "bot"

\* C2: the backoff sleeps of one invocation add up to at most
\* 1 + 2 + 4 + 8 + 16 = 31 s plus 1 s of jitter for each of the 5 attempts.
C2_BackoffBound == \A w \in Workers : slept[w] <= 31000 + 5 * 1000

\* an invocation has slept five times, each with nearly the full jitter
C2_Witness ==
    \E w \in Workers : wpc[w] = "return" /\ slept[w] = 31000 + 5 * 999

\* C3: when download_all_audio returns, it returns at most one path per
\* submitted URL, no path twice, and each path is a file holding the audio
\* of a submitted URL, a different URL for each path.
C3_DistinctPaths ==
    pc = "check_audio" =>
        /\ Len(audio_files) <= Len(videos)
        /\ \A i \in DOMAIN audio_files :
              /\ audio_files[i] \in DOMAIN disk
              /\ disk[audio_files[i]] \in Range(videos)
        /\ \A i, j \in DOMAIN audio_files :
              i # j => /\ audio_files[i] # audio_files[j]
                       /\ disk[audio_files[i]] # disk[audio_files[j]]

\* both fetches succeeded and the second slot's file was collected first
C3_Witness ==
    /\ pc = "check_audio"
    /\ Len(videos) = 2
    /\ Len(audio_files) = 2
    /\ audio_files[1] = DownloadPath(SongName(2))

\* C4: when every file given to create_mashup decodes to at least the clip
\* length, create_mashup returns the output file, and the track it exports
\* lasts exactly trim_duration * 1000 * len(audio_files) ms.
C4_FullLength ==
    (audio_files # <<>> /\ cm_i = Len(audio_files) /\ n_long = Len(audio_files)) =>
        /\ pc = "check_mashup" => mashup_file = OutputFile
        /\ exported # -1 => exported = trim_duration * 1000 * Len(audio_files)

\* ten files, 30 s clips, the last file longer than a clip: 300,000 ms
C4_Witness ==
    /\ Len(audio_files) = 10
    /\ trim_duration = 30
    /\ n_long = 10
    /\ audio > 30000
    /\ exported = 300000

\* C5: when create_mashup is given one file and it decodes to less than the
\* clip length, the track is that file's whole audio, with nothing added:
\* what is exported lasts exactly as long as the file.  (A file of 0 ms
\* leaves the track empty, and create_mashup exports nothing.)
C5_ShortWhole ==
    (Len(audio_files) = 1 /\ cm_i = 1 /\ n_failed = 0
        /\ audio < trim_duration * 1000) =>
        /\ mashup = audio
        /\ (pc = "check_mashup" /\ audio > 0) => mashup_file = OutputFile
        /\ exported # -1 => exported = audio

\* one file of 29,999 ms with 30 s clips, exported as 29,999 ms
C5_Witness ==
    /\ Len(audio_files) = 1
    /\ trim_duration = 30
    /\ audio = 29999
    /\ exported = 29999

\* the run of C6: 10 URLs from the catalog, 7 paths from download_all_audio,
\* 30 s clips, the 7 files all decoded to 30 s or more, lines 213-217 done
C6_Scenario ==
    /\ Len(videos) = 10
    /\ Len(audio_files) = 7
    /\ trim_duration = 30
    /\ cm_i = 7
    /\ n_long = 7
    /\ branch # ""

\* C6 as claimed: in that run expected_mashup_duration is 30000 * 10 =
\* 300000, the 210,000 ms assembled are less, and the warning branch keeps
\* them.
C6_Original ==
    C6_Scenario =>
        /\ expected_mashup_duration = 300000
        /\ branch = "warning"
        /\ mashup = 210000
        /\ exported # -1 => exported = 210000

\* C6, amended: in that run expected_mashup_duration is 30000 * 7 = 210000,
\* from the 7 paths create_mashup was given; the 210,000 ms assembled are
\* not less, so the truncation branch runs, and it removes nothing: the
\* output is 210,000 ms.
C6_ExpectedFromPaths ==
    C6_Scenario =>
        /\ expected_mashup_duration = 210000
        /\ branch = "truncate"
        /\ mashup = 210000
        /\ exported # -1 => exported = 210000

\* that run, with its output exported
C6_Witness == C6_Scenario /\ exported = 210000

\* C7: when get_youtube_links returns the empty list (the catalog has
\* nothing, or the lookup raised), main reports NoResults and nothing else
\* runs: no download is submitted or tried, no assembly, no archive, no email.
C7_NoResults ==
    (pc # "get_links" /\ videos = <<>>) =>
        /\ pc \in {"check_videos", "done"}
        /\ pc = "done" => outcome = "NoResults"
        /\ stages = <<"lookup">>
        /\ ~fetched
        /\ future = <<>> /\ queue = <<>>
        /\ \A w \in Workers : wpc[w] = "idle"
        /\ email_sent = "unset"

\* the lookup raised although the catalog has videos, and main reported
C7_Witness ==
    /\ pc = "done"
    /\ outcome = "NoResults"
    /\ catalog # <<>>

\* C8, in the states: while every download try met the anti-automation
\* error, an invocation returns only after exactly 5 tries and returns
\* None, no future holds a path, the lists stay empty, no stage after the
\* download runs, and main ends with NoAudioDownloaded.
C8_State ==
    (only_bot /\ videos # <<>>) =>
        /\ \A w \in Workers :
              wpc[w] = "return" => tries[w] = 5 /\ retval[w] = None
        /\ \A i \in DOMAIN future : future[i].result = None
        /\ downloaded_files = <<>> /\ audio_files = <<>>
        /\ stages \in {<<"lookup">>, <<"lookup", "download">>}
        /\ pc = "done" => outcome = "NoAudioDownloaded"

\* C8, in the steps: each backoff sleep of an invocation is longer than its
\* previous one.
C8_Step ==
    \A w \in Workers :
        (wpc[w] = "backoff" /\ wpc'[w] = "rotate" /\ sleep_time[w] > 0) =>
            sleep_time'[w] > sleep_time[w]

\* C8: if every download try of every URL meets the anti-automation error,
\* each invocation makes exactly 5 tries, sleeping longer after each, and
\* returns None; download_all_audio returns the empty list and main ends
\* with NoAudioDownloaded, without assembly, packaging or delivery.
C8_AllBlocked == [](C8_State) /\ [][C8_Step]_vars

\* two URLs, every try blocked, main has reported
C8_Witness ==
    /\ pc = "done"
    /\ only_bot
    /\ fetched
    /\ Len(videos) = 2
    /\ outcome = "NoAudioDownloaded"

\* C9, in the states: after a try that ended with another error the
\* invocation is at its return, returning None.
C9_State ==
    \A w \in Workers :
        last_error[w] = "other" => wpc[w] = "return" /\ retval[w] = None

\* C9, in the steps: the step of that error and every step after it, up to
\* the return, makes no try, sleeps not at all and leaves the identity.
C9_Step ==
    \A w \in Workers :
        (last_error'[w] = "other") =>
            /\ slept'[w] = slept[w]
            /\ sleep_time'[w] = sleep_time[w]
            /\ user_agent'[w] = user_agent[w]
            /\ attempt'[w] = attempt[w]
            /\ last_error[w] = "other" => tries'[w] = tries[w]

\* C9: a try that ends with an error other than the anti-automation one
\* makes download_single_audio return None at once: no sleep, no new
\* identity, no further try.
C9_FailFast == [](C9_State) /\ [][C9_Step]_vars

\* the fifth try ended with another error
C9_Witness ==
    \E w \in Workers : last_error[w] = "other" /\ tries[w] = 5

\* C10: once send_email has run (the archive exists), with either result,
\* main goes on to the cleanup and then to the report; when the report is
\* due or made, the composite, the archive and every downloaded file
\* main was given are gone, and the cleanup ran after the delivery.
C10_Cleanup ==
    email_sent # "unset" =>
        /\ pc \in {"cleanup", "report", "done"}
        /\ pc \in {"report", "done"} =>
              /\ stages = <<"lookup", "download", "assemble", "package",
                            "deliver", "cleanup">>
              /\ OutputFile \notin DOMAIN disk
              /\ ZipFile \notin DOMAIN disk
              /\ \A i \in DOMAIN audio_files : audio_files[i] \notin DOMAIN disk
        /\ pc = "done" =>
              outcome = (IF email_sent = "True" THEN "Success"
                         ELSE "DeliveryFailure")

\* the delivery failed, two downloaded files, main has reported
C10_Witness ==
    /\ pc = "done"
    /\ email_sent = "False"
    /\ Len(audio_files) = 2
    /\ outcome = "DeliveryFailure"


\* C11: when main has ended with any outcome, no file the run created is
\* left: no downloaded file, no composite, no archive.  (The code returns at
\* lines 286-288 and 293-295, and handles an exception at lines 313-315,
\* without reaching the removals of lines 304-307.)
C11_NoFileLeft == pc = "done" => DOMAIN disk = {}


\* C12: at most 2 invocations of download_single_audio run at the same time
\* (the pool has max_workers = 1 thread), and a worker thread that took a
\* slot keeps it, retries included, until the invocation returns and its
\* future is finished; only then can it take the next slot.
C12_State ==
    /\ Cardinality({i \in Slots : future[i].state = "RUNNING"}) <= 2
    /\ Cardinality({w \in Workers : wpc[w] # "idle"}) <= 2
    /\ {i \in Slots : future[i].state = "RUNNING"} =
          {task[w] : w \in {v \in Workers : wpc[v] # "idle"}}
    /\ \A w \in Workers : wpc[w] = "idle" <=> task[w] = 0

C12_Step ==
    \A w \in Workers :
       task[w] # 0 =>
          \/ task'[w] = task[w]
          \/ /\ wpc[w] = "return"
             /\ task'[w] = 0
             /\ future'[task[w]].state = "FINISHED"

C12_TwoAtMost == [](C12_State) /\ [][C12_Step]_vars

\* a worker is in its second try of a slot while two more slots wait
C12_Witness ==
    \E w \in Workers : tries[w] >= 2 /\ wpc[w] = "backoff" /\ Len(queue) = 2


\* the pacing sleeps of line 186 that have ended
PacesDone == Cardinality(yielded) - (IF pc = "pace" THEN 1 ELSE 0)

\* C13: between the end of one invocation of download_single_audio and the
\* start of the next on the same worker a pacing sleep of line 186 elapses:
\* when a worker starts a slot after k invocations have returned, k pacing
\* sleeps have ended.  (The sleep is in the loop that collects the results,
\* lines 181-186, not in the worker thread.)
C13_PacedStarts ==
    [][\A w \in Workers :
          (wpc[w] = "idle" /\ wpc'[w] = "try" /\ completed # <<>>)
             => PacesDone >= Len(completed)]_vars


\* C14: main goes on to create_mashup only when every fetch has resolved
\* (each future is finished, with a path or with None, and was collected),
\* audio_files is then the complete list of the paths returned, and neither
\* the fetchers nor the collecting loop change the list, the futures or the
\* downloaded files' entries afterwards.
C14_Returned ==
    /\ "download" \in Range(stages)
    /\ pc \notin {"as_completed", "collect", "pace"}

C14_State ==
    C14_Returned =>
       /\ queue = <<>>
       /\ yielded = Slots
       /\ \A w \in Workers : wpc[w] = "idle"
       /\ \A i \in Slots : future[i].state = "FINISHED"
       /\ audio_files = downloaded_files
       /\ Range(audio_files) = {future[i].result : i \in Slots} \ {None}
       /\ Len(audio_files) = Cardinality(Range(audio_files))

C14_Step ==
    C14_Returned =>
       /\ audio_files' = audio_files
       /\ downloaded_files' = downloaded_files
       /\ future' = future
       /\ wpc' = wpc

C14_AllResolved == [](C14_State) /\ [][C14_Step]_vars

\* create_mashup is at work on one path of two fetches, the other of which
\* resolved to None
C14_Witness ==
    /\ pc = "cm_loop"
    /\ Len(video_urls) = 2
    /\ Len(audio_files) = 1
    /\ \E i \in Slots : future[i].result = None


\* C15: in create_mashup a file that fails to decode is skipped (the track is
\* left as it was) and the loop goes on with the next file, so that every
\* file has had its turn when the loop is left; when every file failed to
\* decode, create_mashup returns None, no output file is written, and main
\* ends with AssemblyFailed with no archive made and no mail sent.
C15_AllFailed ==
    /\ "assemble" \in Range(stages)
    /\ cm_i = Len(audio_files)
    /\ n_failed = Len(audio_files)

C15_State ==
    /\ ("assemble" \in Range(stages) /\ pc # "cm_loop")
          => cm_i = Len(audio_files)
    /\ C15_AllFailed =>
          /\ mashup = 0
          /\ exported = -1
          /\ mashup_file = None
          /\ OutputFile \notin DOMAIN disk
          /\ ZipFile \notin DOMAIN disk
          /\ email_sent = "unset"
          /\ stages = <<"lookup", "download", "assemble">>
          /\ pc \in {"cm_loop", "check_mashup", "done"}
          /\ pc = "done" => outcome = "AssemblyFailed"

C15_Step ==
    /\ (pc = "cm_loop" /\ cm_i' # cm_i) => cm_i' = cm_i + 1
    /\ (pc = "cm_loop" /\ n_failed' # n_failed) =>
          /\ n_failed' = n_failed + 1
          /\ cm_i' = cm_i + 1
          /\ mashup' = mashup
          /\ pc' = "cm_loop"
          /\ audio_files' = audio_files

C15_SkipUndecodable == [](C15_State) /\ [][C15_Step]_vars

\* three files, none of which decoded: main has reported the failure
C15_Witness ==
    /\ pc = "done"
    /\ outcome = "AssemblyFailed"
    /\ Len(audio_files) = 3
    /\ n_failed = 3


C16_State ==
    \A w \in Workers :
       wpc[w] = "exhausted" =>
          /\ tries[w] = max_attempts
          /\ attempt[w] = max_attempts - 1
          /\ sleep_time[w] >= 16000
          /\ last_error[w] = "bot"

C16_Step ==
    \A w \in Workers :
       /\ (wpc[w] = "backoff" /\ wpc'[w] # "backoff") =>
             /\ wpc'[w] = "rotate"
             /\ sleep_time'[w] >= Backoff(attempt[w])
             /\ task'[w] = task[w]
       /\ (wpc[w] = "rotate" /\ wpc'[w] # "rotate") =>
             /\ user_agent'[w] \in USER_AGENTS
             /\ task'[w] = task[w]
             /\ tries'[w] = tries[w]
             /\ IF tries[w] < max_attempts
                THEN wpc'[w] = "try" /\ attempt'[w] = attempt[w] + 1
                ELSE wpc'[w] = "exhausted"
       /\ (wpc[w] = "exhausted" /\ wpc'[w] # "exhausted") =>
             /\ wpc'[w] = "return"
             /\ retval'[w] = None
             /\ tries'[w] = tries[w]

C17_Names ==
    \A i, j \in Slots :
       /\ MatchesSlot(SongName(i), i)
       /\ i # j => /\ SongName(i) # SongName(j)
                   /\ video_urls[i] # video_urls[j]
                   /\ ~MatchesSlot(SongName(j), i)

C17_Files ==
    \A f \in ListDir(disk) : \A i \in Slots :
       MatchesSlot(f, i) =>
          /\ f = SongName(i)
          /\ disk[DownloadPath(f)] = video_urls[i]

C17_Results ==
    /\ \A w \in Workers :
          (wpc[w] = "return" /\ retval[w] # None) =>
             /\ retval[w] = DownloadPath(SongName(task[w]))
             /\ disk[retval[w]] = video_urls[task[w]]
    /\ \A i \in Slots :
          future[i].result # None =>
             /\ future[i].result = DownloadPath(SongName(i))
             /\ disk[future[i].result] = video_urls[i]

C17_OwnFileOnly == C17_Names /\ C17_Files /\ C17_Results

\* slot 11 is being fetched, found no file of its own after a try that wrote
\* none, while the file of slot 1 is in the directory
C17_Witness ==
    \E w \in Workers :
       /\ task[w] = 11
       /\ wpc[w] = "return"
       /\ last_error[w] = ""
       /\ retval[w] = None
       /\ DownloadPath(SongName(1)) \in DOMAIN disk


\* C18: under fair scheduling every invocation of download_single_audio that
\* a worker started returns, every call submitted to the executor is run and
\* its future finished, and download_all_audio, once called, returns to
\* main, whatever the tries end with.
C18_FetchReturns ==
    \A w \in Workers : (wpc[w] # "idle") ~> (wpc[w] = "idle")

C18_EveryTaskRun ==
    \A i \in 1..MaxVideos :
       (i \in DOMAIN future) ~> (i \in DOMAIN future /\ future[i].state = "FINISHED")

C18_DownloadAllReturns == (pc = "as_completed") ~> (pc = "check_audio")

C18_Terminates ==
    /\ C18_FetchReturns
    /\ C18_EveryTaskRun
    /\ C18_DownloadAllReturns

\* download_all_audio has returned: both calls were run, slot 1 gave no file
\* and slot 2 gave its own
C18_Witness ==
    /\ pc = "check_audio"
    /\ Len(video_urls) = 2
    /\ Len(completed) = 2
    /\ ~only_bot
    /\ audio_files = <<DownloadPath(SongName(2))>>


\* C19: while create_mashup runs its loop the track never gets shorter and
\* each turn adds at most trim_duration * 1000 ms; the track is never longer
\* than trim_duration * 1000 ms times the number of files processed so far,
\* hence than that times len(audio_files); so lines 213-217 leave the track
\* as long as the loop made it, whichever branch they take, and that length
\* is what is exported.
C19_State ==
    "assemble" \in Range(stages) =>
       /\ 0 <= mashup
       /\ mashup <= total_trim_duration_per_file * cm_i
       /\ mashup <= total_trim_duration_per_file * Len(audio_files)
       /\ exported \in {-1, mashup}

C19_Step ==
    /\ (pc = "cm_loop" /\ pc' = "cm_loop") =>
          /\ mashup' >= mashup
          /\ mashup' - mashup <= total_trim_duration_per_file
    /\ (pc = "cm_loop" /\ pc' = "cm_export") =>
          /\ mashup' = mashup
          /\ mashup <= expected_mashup_duration'

C19_GrowsBounded == [](C19_State) /\ [][C19_Step]_vars

\* three files longer than the clip: the track is as long as expected and
\* line 217 has cut nothing off it
C19_Witness ==
    /\ pc = "cm_export"
    /\ branch = "truncate"
    /\ Len(audio_files) = 3
    /\ n_long = 3
    /\ audio > total_trim_duration_per_file
    /\ mashup = total_trim_duration_per_file * 3

====
